---- MODULE Spec2Model ----
(***************************************************************************)
(* Model of the keystroke handlers of src/components/Editor.tsx: the       *)
(* textarea (value, selectionStart, selectionEnd) and the handlers that    *)
(* handleKeyDown dispatches to: handleTab, handleEnter, handleBracketClose.*)
(* Text is a sequence of one-character strings; offsets are 0-based as in  *)
(* the source, so the JS slice(a, b) is SubSeq(s, a + 1, b).               *)
(***************************************************************************)
EXTENDS Integers, Sequences, FiniteSets, TLC

VARIABLES textarea, event, prior

vars == <<textarea, event, prior>>

\* ---- bounds ----
MaxInitLen == 3
MaxLen == 7

\* Characters the buffers are drawn from: two whitespace characters other
\* than the newline, the newline, a block opener, a closer and a letter.
Alphabet == {" ", "\t", "\n", "{", "a"}

\* The JavaScript character class \s, restricted to the alphabet.
WhiteSpace == {" ", "\t", "\n"}

\* The character class [{\[:>] of handleEnter.
TriggerChars == {"{", "[", ":", ">"}

\* ---- string primitives ----
Slice(s, a, b) == SubSeq(s, a + 1, b)

SliceFrom(s, a) == SubSeq(s, a + 1, Len(s))

\* String.prototype.lastIndexOf("\n"): 0-based index, -1 when absent.
LastIndexOfNewline(s) ==
  LET nl == {i \in 1..Len(s) : s[i] = "\n"}
  IN IF nl = {} THEN -1 ELSE (CHOOSE i \in nl : \A j \in nl : j <= i) - 1

RECURSIVE Split(_)
Split(s) ==
  LET nl == {i \in 1..Len(s) : s[i] = "\n"}
  IN IF nl = {} THEN <<s>>
     ELSE LET i == CHOOSE k \in nl : \A j \in nl : k <= j
          IN <<SubSeq(s, 1, i - 1)>> \o Split(SubSeq(s, i + 1, Len(s)))

RECURSIVE Join(_)
Join(ls) ==
  IF Len(ls) = 1 THEN ls[1] ELSE ls[1] \o <<"\n">> \o Join(Tail(ls))

\* ---- the DOM calls the handlers make ----
\* HTMLTextAreaElement.setSelectionRange(start, end): both arguments are
\* unsigned long, so a negative number wraps to 2^32 + n, which is beyond any
\* buffer; arguments beyond the length point at the end; when end <= start
\* both ends are placed at end.
ClampOffset(n, len) == IF n < 0 \/ n > len THEN len ELSE n

\* Variant: the requested offsets are stored as given, without clamping.
setSelectionRangeUnclamped(t, start, end) ==
  [t EXCEPT !.selectionStart = start, !.selectionEnd = end]

setSelectionRange(t, start, end) ==
  LET s == ClampOffset(start, Len(t.value))
      e == ClampOffset(end, Len(t.value))
  IN [t EXCEPT !.selectionStart = IF e <= s THEN e ELSE s,
               !.selectionEnd = e]

\* document.execCommand("insertText", false, text): the selected range is
\* replaced by text and the caret collapses after the inserted text.
insertText(t, text) ==
  [value |-> Slice(t.value, 0, t.selectionStart) \o text
               \o SliceFrom(t.value, t.selectionEnd),
   selectionStart |-> t.selectionStart + Len(text),
   selectionEnd |-> t.selectionStart + Len(text)]

\* ---- pure helpers of the source ----
\* Variant: a one-space indent step.
indentLineOneSpace(str) == <<" ">> \o str

indentLine(str) == <<" ", " ">> \o str

indentText(text) ==
  LET ls == Split(text)
  IN Join([i \in 1..Len(ls) |-> indentLine(ls[i])])

\* Variant: strips up to two leading whitespace characters, /^\s{1,2}/.
dedentLineUpToTwo(str) ==
  IF Len(str) >= 2 /\ str[1] \in WhiteSpace /\ str[2] \in WhiteSpace
  THEN SubSeq(str, 3, Len(str))
  ELSE IF Len(str) >= 1 /\ str[1] \in WhiteSpace
       THEN SubSeq(str, 2, Len(str))
       ELSE str

\* str.replace(/^\s\s/, "")
dedentLine(str) ==
  IF Len(str) >= 2 /\ str[1] \in WhiteSpace /\ str[2] \in WhiteSpace
  THEN SubSeq(str, 3, Len(str))
  ELSE str

dedentText(text) ==
  LET ls == Split(text)
  IN Join([i \in 1..Len(ls) |-> dedentLine(ls[i])])

\* Variant: the line is taken to start at the newline itself.
lineStartOfNoSkip(original, selectionStart) ==
  LET beforeStart == Slice(original, 0, selectionStart)
  IN IF LastIndexOfNewline(beforeStart) # -1
     THEN LastIndexOfNewline(beforeStart)
     ELSE 0

\* The slice start of getCurrentlySelectedLine.
lineStartOf(original, selectionStart) ==
  LET beforeStart == Slice(original, 0, selectionStart)
  IN IF LastIndexOfNewline(beforeStart) # -1
     THEN LastIndexOfNewline(beforeStart) + 1
     ELSE 0

getCurrentlySelectedLine(t) ==
  Split(SliceFrom(t.value, lineStartOf(t.value, t.selectionStart)))[1]

\* currentLine.startsWith("  ")
startsWithTwoSpaces(str) == Len(str) >= 2 /\ str[1] = " " /\ str[2] = " "

\* currentLine.match(/^(\s+)/)[0], "" when there is no match
leadingWhitespace(str) ==
  LET n == CHOOSE k \in 0..Len(str) :
             /\ \A i \in 1..k : str[i] \in WhiteSpace
             /\ (k < Len(str) => str[k + 1] \notin WhiteSpace)
  IN SubSeq(str, 1, n)

\* currentLine.match(/([{\[:>])$/)
endsWithTrigger(str) == Len(str) >= 1 /\ str[Len(str)] \in TriggerChars

\* currentLine.match(/^\s{2,}$/)
isBlankIndented(str) ==
  Len(str) >= 2 /\ \A i \in 1..Len(str) : str[i] \in WhiteSpace

\* ---- handlers ----
handleTab(t, shiftKey) ==
  LET original == t.value
      start == t.selectionStart
      end == t.selectionEnd
      beforeStart == Slice(original, 0, start)
      currentLine == getCurrentlySelectedLine(t)
      newStart == LastIndexOfNewline(beforeStart) + 1
  IN IF start = end
     THEN IF shiftKey
          THEN insertText(setSelectionRange(t, newStart, end),
                          dedentText(Slice(original, newStart, end)))
          ELSE insertText(t, <<" ", " ">>)
     ELSE IF shiftKey
          THEN LET newText == dedentText(Slice(original, newStart, end))
                   t2 == insertText(setSelectionRange(t, newStart, end), newText)
               IN IF startsWithTwoSpaces(currentLine)
                  THEN setSelectionRange(t2, start - 2, start - 2 + Len(newText))
                  ELSE setSelectionRange(t2, start, start + Len(newText))
          ELSE LET newText == indentText(Slice(original, newStart, end))
                   t2 == insertText(setSelectionRange(t, newStart, end), newText)
               IN setSelectionRange(t2, start + 2, start + 2 + Len(newText))

\* Variant: the indentation is derived from the text before the caret only.
handleEnterBeforeCaret(t) ==
  LET currentLine == Slice(t.value, lineStartOf(t.value, t.selectionStart), t.selectionStart)
      currentIndentation == leadingWhitespace(currentLine)
      wantedIndentation == IF endsWithTrigger(currentLine)
                           THEN currentIndentation \o <<" ", " ">>
                           ELSE currentIndentation
  IN insertText(t, <<"\n">> \o wantedIndentation)

handleEnter(t) ==
  LET currentLine == getCurrentlySelectedLine(t)
      currentIndentation == leadingWhitespace(currentLine)
      wantedIndentation == IF endsWithTrigger(currentLine)
                           THEN currentIndentation \o <<" ", " ">>
                           ELSE currentIndentation
  IN insertText(t, <<"\n">> \o wantedIndentation)

\* Variant: the brace is moved back to the start of the blank line.
handleBracketCloseFullDedent(t) ==
  LET currentLine == getCurrentlySelectedLine(t)
      t1 == IF t.selectionStart = t.selectionEnd /\ isBlankIndented(currentLine)
            THEN setSelectionRange(t, lineStartOf(t.value, t.selectionStart), t.selectionEnd)
            ELSE t
  IN insertText(t1, <<"}">>)

handleBracketClose(t) ==
  LET currentLine == getCurrentlySelectedLine(t)
      t1 == IF t.selectionStart = t.selectionEnd /\ isBlankIndented(currentLine)
            THEN setSelectionRange(t, t.selectionStart - 2, t.selectionEnd)
            ELSE t
  IN insertText(t1, <<"}">>)

\* ---- state machine ----
RECURSIVE Texts(_)
Texts(n) ==
  IF n = 0 THEN {<<>>}
  ELSE Texts(n - 1) \cup {Append(s, c) : s \in {x \in Texts(n - 1) : Len(x) = n - 1}, c \in Alphabet}

NoEvent == [key |-> "none", shiftKey |-> FALSE,
            before |-> [value |-> <<>>, selectionStart |-> 0, selectionEnd |-> 0]]

Init ==
  /\ \E v \in Texts(MaxInitLen) :
       \E s \in 0..Len(v) : \E e \in s..Len(v) :
         textarea = [value |-> v, selectionStart |-> s, selectionEnd |-> e]
  /\ event = NoEvent
  /\ prior = NoEvent

KeyTab ==
  \E shiftKey \in BOOLEAN :
    LET t == handleTab(textarea, shiftKey)
    IN /\ Len(t.value) <= MaxLen
       /\ textarea' = t
       /\ event' = [key |-> "Tab", shiftKey |-> shiftKey, before |-> textarea]
       /\ prior' = event

KeyEnter ==
  LET t == handleEnter(textarea)
  IN /\ Len(t.value) <= MaxLen
     /\ textarea' = t
     /\ event' = [key |-> "Enter", shiftKey |-> FALSE, before |-> textarea]
     /\ prior' = event

KeyBracketClose ==
  LET t == handleBracketClose(textarea)
  IN /\ Len(t.value) <= MaxLen
     /\ textarea' = t
     /\ event' = [key |-> "}", shiftKey |-> FALSE, before |-> textarea]
     /\ prior' = event

Next == KeyTab \/ KeyEnter \/ KeyBracketClose

Spec == Init /\ [][Next]_vars

TypeOK ==
  /\ textarea.selectionStart \in 0..Len(textarea.value)
  /\ textarea.selectionEnd \in 0..Len(textarea.value)
\* ---- vocabulary of the properties ----
\* The state before the last key event, and the one before the event before.
pre == event.before

\* Beginning of the line that contains offset off: the largest k <= off that
\* is 0 or directly follows a newline.
LineBegin(buf, off) ==
  CHOOSE k \in 0..off :
    /\ (k = 0 \/ buf[k] = "\n")
    /\ \A j \in (k + 1)..off : buf[j] # "\n"

\* End of the line that begins at ls: the next newline, or the end of buf.
LineEnd(buf, ls) ==
  CHOOSE k \in ls..Len(buf) :
    /\ (k = Len(buf) \/ buf[k + 1] = "\n")
    /\ \A j \in (ls + 1)..k : buf[j] # "\n"

WholeLine(buf, off) == Slice(buf, LineBegin(buf, off), LineEnd(buf, LineBegin(buf, off)))

\* Length of the maximal whitespace prefix of a line.
LeadLen(line) ==
  CHOOSE k \in 0..Len(line) :
    /\ \A i \in 1..k : line[i] \in WhiteSpace
    /\ (k < Len(line) => line[k + 1] \notin WhiteSpace)

NewlineCount(buf) == Cardinality({i \in 1..Len(buf) : buf[i] = "\n"})

Collapsed(t) == t.selectionStart = t.selectionEnd

\* Length of the text that replaced [from, pre.selectionEnd) of the old buffer.
ReplacementLen(from) ==
  Len(textarea.value) - Len(pre.value) + (pre.selectionEnd - from)

C2_TabBlock ==
  (event.key = "Tab" /\ ~Collapsed(pre)) =>
    LET ls == LineBegin(pre.value, pre.selectionStart)
        tailLen == Len(pre.value) - pre.selectionEnd
        old == Split(Slice(pre.value, ls, pre.selectionEnd))
        new == Split(Slice(textarea.value, ls, Len(textarea.value) - tailLen))
    IN /\ Len(textarea.value) - tailLen >= ls
       /\ Slice(textarea.value, 0, ls) = Slice(pre.value, 0, ls)
       /\ SliceFrom(textarea.value, Len(textarea.value) - tailLen)
            = SliceFrom(pre.value, pre.selectionEnd)
       /\ Len(new) = Len(old)
       /\ \A i \in 1..Len(old) :
            IF ~event.shiftKey
            THEN new[i] = <<" ", " ">> \o old[i]
            ELSE IF Len(old[i]) >= 2 /\ old[i][1] \in WhiteSpace /\ old[i][2] \in WhiteSpace
                 THEN new[i] = SubSeq(old[i], 3, Len(old[i]))
                 ELSE new[i] = old[i]
       /\ NewlineCount(textarea.value) = NewlineCount(pre.value)

\* A multi-line selection starting inside a line was indented.
C2_Witness ==
  /\ event.key = "Tab" /\ ~event.shiftKey /\ ~Collapsed(pre)
  /\ pre.selectionStart > LineBegin(pre.value, pre.selectionStart)
  /\ NewlineCount(Slice(pre.value, pre.selectionStart, pre.selectionEnd)) >= 1
  /\ \E i \in 1..Len(pre.value) - 1 : pre.value[i] = "\n" /\ pre.value[i + 1] = "\n"

\* C3: after Tab without shift on a non-empty selection the new selection
\* covers the inserted block [lineStart, lineStart + length(replacement)].
C3_IndentSelectionCoversBlock ==
  (event.key = "Tab" /\ ~event.shiftKey /\ ~Collapsed(pre)) =>
    LET ls == LineBegin(pre.value, pre.selectionStart)
    IN /\ textarea.selectionStart <= ls
       /\ ls + ReplacementLen(ls) <= textarea.selectionEnd

\* C4: after Shift+Tab on a non-empty selection the new selection has the
\* replacement's length, starts at start - 2 when the first selected line
\* began with two spaces and at start otherwise, and coincides with
\* [lineStart, lineStart + length(replacement)].
C4_DedentSelectionCoversBlock ==
  (event.key = "Tab" /\ event.shiftKey /\ ~Collapsed(pre)) =>
    LET ls == LineBegin(pre.value, pre.selectionStart)
        line == WholeLine(pre.value, pre.selectionStart)
        twoSpaces == Len(line) >= 2 /\ line[1] = " " /\ line[2] = " "
    IN /\ textarea.selectionEnd - textarea.selectionStart = ReplacementLen(ls)
       /\ textarea.selectionStart
            = (IF twoSpaces THEN pre.selectionStart - 2 ELSE pre.selectionStart)
       /\ textarea.selectionStart = ls

\* C5: Shift+Tab with a collapsed caret at c removes the first two
\* characters of [lineStart, c) iff both are whitespace, the caret then ends
\* at c - 2; otherwise buffer and caret are unchanged.
C5_CaretDedent ==
  (event.key = "Tab" /\ event.shiftKey /\ Collapsed(pre)) =>
    LET c == pre.selectionStart
        ls == LineBegin(pre.value, c)
    IN IF c - ls >= 2 /\ pre.value[ls + 1] \in WhiteSpace /\ pre.value[ls + 2] \in WhiteSpace
       THEN /\ textarea.value = Slice(pre.value, 0, ls) \o SliceFrom(pre.value, ls + 2)
            /\ textarea.selectionStart = c - 2
            /\ textarea.selectionEnd = c - 2
       ELSE textarea = pre

\* A caret dedent removed a tab-and-space indentation in front of a caret
\* that is not at the end of the buffer.
C5_Witness ==
  /\ event.key = "Tab" /\ event.shiftKey /\ Collapsed(pre)
  /\ Len(textarea.value) = Len(pre.value) - 2
  /\ pre.value[LineBegin(pre.value, pre.selectionStart) + 1] = "\t"
  /\ pre.selectionStart < Len(pre.value)

\* C6: Enter replaces [start, end) by a newline and the indentation: the
\* leading whitespace of the entire line containing start, plus two spaces
\* iff that entire line ends in one of { [ : >; the caret collapses at
\* start + 1 + length(indentation).
C6_Enter ==
  (event.key = "Enter") =>
    LET line == WholeLine(pre.value, pre.selectionStart)
        lead == SubSeq(line, 1, LeadLen(line))
        ind == IF Len(line) >= 1 /\ line[Len(line)] \in TriggerChars
               THEN lead \o <<" ", " ">> ELSE lead
    IN /\ textarea.value = Slice(pre.value, 0, pre.selectionStart) \o <<"\n">> \o ind
                             \o SliceFrom(pre.value, pre.selectionEnd)
       /\ textarea.selectionStart = pre.selectionStart + 1 + Len(ind)
       /\ textarea.selectionEnd = textarea.selectionStart

\* Enter with the caret before the end of an indented line that ends in "{".
C6_Witness ==
  /\ event.key = "Enter"
  /\ LET ls == LineBegin(pre.value, pre.selectionStart)
         le == LineEnd(pre.value, ls)
     IN /\ le > ls + 1
        /\ pre.value[ls + 1] \in WhiteSpace
        /\ pre.value[le] = "{"
        /\ pre.selectionStart < le
        /\ pre.selectionEnd > pre.selectionStart

\* C7: "}" with a collapsed caret at c on a line of two or more whitespace
\* characters gives value[0, c-2) + "}" + value[c, ..) with the caret at
\* c - 1; in every other case value[0, start) + "}" + value[end, ..) with the
\* caret at start + 1.
C7_BracketClose ==
  (event.key = "}") =>
    LET line == WholeLine(pre.value, pre.selectionStart)
        blank == Len(line) >= 2 /\ \A i \in 1..Len(line) : line[i] \in WhiteSpace
        c == pre.selectionStart
    IN IF Collapsed(pre) /\ blank
       THEN /\ textarea.value = Slice(pre.value, 0, c - 2) \o <<"}">> \o SliceFrom(pre.value, c)
            /\ textarea.selectionStart = c - 1
            /\ textarea.selectionEnd = c - 1
       ELSE /\ textarea.value = Slice(pre.value, 0, c) \o <<"}">>
                                  \o SliceFrom(pre.value, pre.selectionEnd)
            /\ textarea.selectionStart = c + 1
            /\ textarea.selectionEnd = c + 1

\* C8 as stated: lineStart follows the nearest newline at or before offset.
C8_LineStartAtOrBefore ==
  \A off \in 0..Len(textarea.value) :
    LET nl == {i \in 0..off : i < Len(textarea.value) /\ textarea.value[i + 1] = "\n"}
    IN lineStartOf(textarea.value, off)
         = (IF nl = {} THEN 0 ELSE (CHOOSE i \in nl : \A j \in nl : j <= i) + 1)

\* C8: lineStart is the index after the nearest newline strictly before
\* offset (0 if none); the line text runs from lineStart up to, not
\* including, the next newline or the end of the buffer and has no newline.
C8_LineLocator ==
  \A off \in 0..Len(textarea.value) :
    LET v == textarea.value
        nl == {i \in 0..(off - 1) : v[i + 1] = "\n"}
        ls == lineStartOf(v, off)
        text == getCurrentlySelectedLine([textarea EXCEPT !.selectionStart = off])
    IN /\ ls = (IF nl = {} THEN 0 ELSE (CHOOSE i \in nl : \A j \in nl : j <= i) + 1)
       /\ ls + Len(text) <= Len(v)
       /\ text = Slice(v, ls, ls + Len(text))
       /\ \A i \in 1..Len(text) : text[i] # "\n"
       /\ (ls + Len(text) < Len(v) => v[ls + Len(text) + 1] = "\n")

\* A buffer of several lines whose caret sits directly before a newline.
C8_Witness ==
  /\ NewlineCount(textarea.value) >= 2
  /\ textarea.selectionStart < Len(textarea.value)
  /\ textarea.value[textarea.selectionStart + 1] = "\n"
  /\ lineStartOf(textarea.value, textarea.selectionStart) > 0
  /\ lineStartOf(textarea.value, textarea.selectionStart) < textarea.selectionStart

\* C9: Enter with a collapsed caret at the end of a line L that ends in "{",
\* followed by "}", leaves L unchanged and makes the next line exactly
\* leadingWhitespace(L) + "}" with the caret directly after the brace.
C9_EnterThenBrace ==
  LET p == prior.before
      c == p.selectionStart
      L == WholeLine(p.value, c)
      lead == SubSeq(L, 1, LeadLen(L))
  IN (/\ prior.key = "Enter" /\ event.key = "}"
      /\ Collapsed(p)
      /\ c = LineEnd(p.value, LineBegin(p.value, c))
      /\ Len(L) >= 1 /\ L[Len(L)] = "{") =>
       /\ textarea.value = Slice(p.value, 0, c) \o <<"\n">> \o lead \o <<"}">>
                             \o SliceFrom(p.value, c)
       /\ textarea.selectionStart = c + 1 + Len(lead) + 1
       /\ textarea.selectionEnd = textarea.selectionStart
       /\ WholeLine(textarea.value, c) = L
       /\ WholeLine(textarea.value, c + 1) = lead \o <<"}">>

\* The sequence ran on an indented line that is followed by another line.
C9_Witness ==
  /\ prior.key = "Enter" /\ event.key = "}"
  /\ Collapsed(prior.before)
  /\ LET p == prior.before
         L == WholeLine(p.value, p.selectionStart)
     IN /\ p.selectionStart = LineEnd(p.value, LineBegin(p.value, p.selectionStart))
        /\ Len(L) >= 2 /\ L[Len(L)] = "{" /\ L[1] \in WhiteSpace
        /\ p.selectionStart < Len(p.value)

\* C10: "}" with a collapsed caret changes only the caret's line: the number
\* of newlines is unchanged, the text before the caret's line and after the
\* caret is unchanged.
C10_BracketCloseFrame ==
  (event.key = "}" /\ Collapsed(pre)) =>
    LET c == pre.selectionStart
        ls == LineBegin(pre.value, c)
        tailLen == Len(pre.value) - c
    IN /\ NewlineCount(textarea.value) = NewlineCount(pre.value)
       /\ Len(textarea.value) - tailLen >= ls
       /\ Slice(textarea.value, 0, ls) = Slice(pre.value, 0, ls)
       /\ SliceFrom(textarea.value, Len(textarea.value) - tailLen) = SliceFrom(pre.value, c)
====
